---- MODULE Spec2Model ----
(***************************************************************************)
(* A model of smp_sys/systems.py: the SMPSys base class, the PointmassSys   *)
(* integrator, the forward kinematics and the SimplearmSys arm.             *)
(*                                                                         *)
(* numpy arrays are objects on a heap (id -> sequence of numbers); an       *)
(* attribute or a returned channel that holds an array holds a view         *)
(* [id, lo, hi] onto a heap object, so that in-place assignment             *)
(* (self.x[...] = ..., self.x += ...) and rebinding (self.x = copy) differ  *)
(* as they do in Python.  Numbers are exact rationals <<n, d>>; rounding of *)
(* IEEE doubles is not modelled.  np.cos / np.sin are tabulated to three    *)
(* decimals on the integer angles the bounded inputs can produce.           *)
(***************************************************************************)
EXTENDS Integers, Sequences, FiniteSets, TLC

VARIABLES
    cls,       \* the class being instantiated
    defaults,  \* the class attribute `defaults` of that class
    conf,      \* the configuration mapping the caller passes to the constructor
    pc,        \* "new" before construction, "ready" after, "failed" if it raised
    sys,       \* the instance: [cls, attr (name -> value), heap (id -> array)]
    ret,       \* what the last call returned or raised
    held,      \* a Step result the caller kept, with the values it had then
    pre,       \* the values of the live state just before the last call
    lastop,    \* "init", "step" or "reset"
    last_u,    \* the input of the last Step call
    acc,       \* the acceleration and noise of the most recent integration
    run,       \* the current run of Step calls with one constant force
    calls,     \* number of Step / Reset calls made so far
    twin,      \* a second, freshly constructed instance with the same conf
    ret2,      \* what the last call on twin returned
    phase      \* "solo": one instance; "paired": self and twin driven together

vars == <<cls, defaults, conf, pc, sys, ret, held, pre, lastop, last_u, acc, run, calls,
          twin, ret2, phase>>

\* ---------------------------------------------------------------- bounds
MaxCalls == 4      \* Step / Reset calls on one instance
MaxPaired == 2     \* Step calls driven on an instance and its twin together

\* F applied to the value of x, computed once
With(x, F(_)) == CHOOSE r \in {F(y) : y \in {x}} : TRUE

\* ------------------------------------------------------------- rationals
Abs(i) == IF i < 0 THEN -i ELSE i

RECURSIVE GCD(_, _)
GCD(a, b) == IF b = 0 THEN a ELSE GCD(b, a % b)

Norm(n, d) ==
    With(GCD(Abs(n), Abs(d)) * (IF d < 0 THEN -1 ELSE 1),
         LAMBDA g : <<n \div g, d \div g>>)

R(i) == <<i, 1>>
Q(n, d) == Norm(n, d)
RAdd(a, b) == Norm(a[1] * b[2] + b[1] * a[2], a[2] * b[2])
RSub(a, b) == Norm(a[1] * b[2] - b[1] * a[2], a[2] * b[2])
RMul(a, b) == Norm(a[1] * b[1], a[2] * b[2])
RDiv(a, b) == Norm(a[1] * b[2], a[2] * b[1])
RLe(a, b) == a[1] * b[2] <= b[1] * a[2]
RMin(a, b) == IF RLe(a, b) THEN a ELSE b
RMax(a, b) == IF RLe(a, b) THEN b ELSE a

\* ---------------------------------------------------------------- arrays
RECURSIVE Fill(_, _)
Fill(n, q) == IF n = 0 THEN <<>> ELSE <<q>> \o Fill(n - 1, q)
Zeros(n) == Fill(n, R(0))

RECURSIVE VAdd(_, _)
VAdd(v, w) ==
    IF v = <<>> THEN <<>> ELSE <<RAdd(Head(v), Head(w))>> \o VAdd(Tail(v), Tail(w))

RECURSIVE VMul(_, _)
VMul(v, w) ==
    IF v = <<>> THEN <<>> ELSE <<RMul(Head(v), Head(w))>> \o VMul(Tail(v), Tail(w))

RECURSIVE VScale(_, _)
VScale(c, v) ==
    IF v = <<>> THEN <<>> ELSE <<RMul(c, Head(v))>> \o VScale(c, Tail(v))

RECURSIVE VDiv(_, _)
VDiv(v, c) ==
    IF v = <<>> THEN <<>> ELSE <<RDiv(Head(v), c)>> \o VDiv(Tail(v), c)

RECURSIVE VSum(_)
VSum(v) == IF v = <<>> THEN R(0) ELSE RAdd(Head(v), VSum(Tail(v)))

\* np.cumsum
RECURSIVE CumFrom(_, _)
CumFrom(s, v) ==
    IF v = <<>> THEN <<>>
    ELSE With(RAdd(s, Head(v)), LAMBDA t : <<t>> \o CumFrom(t, Tail(v)))
CumSum(v) == CumFrom(R(0), v)

\* ------------------------------------------------------------------ heap
None == [kind |-> "none"]

RECURSIVE MinFree(_, _)
MinFree(ids, i) == IF i \in ids THEN MinFree(ids, i + 1) ELSE i

\* allocate a new array object; returns the heap and the new id
NewId(heap) == MinFree(DOMAIN heap, 1)
Alloc(heap, arr) == heap @@ (NewId(heap) :> arr)

Whole(heap, id) == [id |-> id, lo |-> 1, hi |-> Len(heap[id])]
Deref(heap, view) == SubSeq(heap[view.id], view.lo, view.hi)

\* in-place slice assignment arr[lo..hi] = vals
Store(heap, id, lo, vals) ==
    [heap EXCEPT ![id] =
        SubSeq(@, 1, lo - 1) \o vals \o SubSeq(@, lo + Len(vals), Len(@))]

\* --------------------------------------------------------- configuration
PM == "PointmassSys"
ARM == "SimplearmSys"
Classes == {PM, ARM}

\* np.random.uniform(-0.3, 0.3, (3, 1)), drawn once when the class is defined
X0Draw == <<Q(1, 10), Q(-1, 5), Q(3, 10)>>
X0Draws == {X0Draw, <<Q(-3, 10), Q(1, 5), Q(0, 1)>>}

PointmassDefaults(x0) ==
    [sysdim |-> 1, x0 |-> x0, statedim |-> 3, dt |-> Q(1, 10), mass |-> R(1),
     force_max |-> R(1), force_min |-> R(-1), friction |-> Q(1, 1000),
     sysnoise |-> Q(1, 100)]

SimplearmDefaults(x0) ==
    [sysdim |-> 1, x0 |-> x0, statedim |-> 3, dt |-> Q(1, 10), mass |-> R(1),
     force_max |-> R(1), force_min |-> R(-1), friction |-> Q(1, 1000),
     sysnoise |-> Q(1, 100), dim_s_motor |-> 3, length_ratio |-> R(1),
     m_mins |-> R(-1), m_maxs |-> R(1), dim_s_extero |-> 2]

ClassDefaults(klass, x0) ==
    IF klass = PM THEN PointmassDefaults(x0) ELSE SimplearmDefaults(x0)

Restrict(f, keys) == [k \in keys |-> f[k]]
Has(self, k) == k \in DOMAIN self.attr

Raise(exc) == [kind |-> "raise", exc |-> exc]

\* ----------------------------------------------------------- construction
\* SMPSys.__init__: every key of conf becomes an attribute, nothing else does.
\* An array value (x0) is the caller's own array object, placed on the heap.
SMPSys_init(klass, c) ==
    [cls |-> klass,
     attr |-> [k \in DOMAIN c |-> IF k = "x0" THEN 1 ELSE c[k]]
              @@ [conf |-> c]
              @@ (IF "ros" \in DOMAIN c /\ c.ros = TRUE
                  THEN [subs |-> {}, pubs |-> {}] ELSE <<>>),
     heap |-> IF "x0" \in DOMAIN c THEN (1 :> c.x0) ELSE <<>>]

\* lines 104-107 and 262-265: x0 defaults to zeros(statedim), x is a copy of x0
init_state(self) ==
    IF ~Has(self, "x0") /\ ~Has(self, "statedim")
    THEN Raise("AttributeError")
    ELSE With(IF Has(self, "x0") THEN self.heap
              ELSE Alloc(self.heap, Zeros(self.attr.statedim)),
         LAMBDA h1 :
         With(IF Has(self, "x0") THEN self.attr.x0 ELSE NewId(self.heap),
         LAMBDA x0 :
             [kind |-> "ok",
              self |-> [self EXCEPT
                  !.attr = [k \in DOMAIN self.attr \ {"x0", "x", "cnt"} |->
                               self.attr[k]]
                           @@ [x0 |-> x0, x |-> NewId(h1), cnt |-> 0],
                  !.heap = Alloc(h1, h1[x0])]]))

PointmassSys_init(c) == With(SMPSys_init(PM, c), LAMBDA s : init_state(s))

\* SimplearmSys.compute_lengths
RECURSIVE LengthProfile(_, _)
LengthProfile(n, ratio) ==
    IF n <= 1 THEN Fill(n, R(1))
    ELSE With(LengthProfile(n - 1, ratio),
              LAMBDA l : Append(l, RDiv(l[n - 1], ratio)))

compute_lengths(n_dofs, ratio) ==
    With(LengthProfile(n_dofs, ratio),
         LAMBDA l : With(VSum(l), LAMBDA t : VDiv(l, t)))

\* lines 269-273: factor, lengths and m, after the common part
arm_init_fields(r) ==
    IF r.kind = "raise" THEN r
    ELSE IF ~Has(r.self, "dim_s_motor") \/ ~Has(r.self, "length_ratio")
    THEN Raise("AttributeError")
    ELSE [kind |-> "ok",
          self |-> [r.self EXCEPT
              !.attr = [k \in DOMAIN r.self.attr \ {"factor", "lengths", "m"}
                           |-> r.self.attr[k]]
                       @@ [factor |-> R(1),
                           lengths |-> compute_lengths(r.self.attr.dim_s_motor,
                                                       r.self.attr.length_ratio),
                           m |-> NewId(r.self.heap)],
              !.heap = Alloc(r.self.heap, Zeros(r.self.attr.dim_s_motor))]]

SimplearmSys_init(c) ==
    With(SMPSys_init(ARM, c),
         LAMBDA s : With(init_state(s), LAMBDA r : arm_init_fields(r)))

Construct(klass, c) ==
    IF klass = PM THEN PointmassSys_init(c) ELSE SimplearmSys_init(c)

\* -------------------------------------------------------------- PointmassSys
\* a shape is the number of elements; every array here is a column vector
Block(self, lo, hi) == SubSeq(self.heap[self.attr.x], lo, hi)

\* a slip: the force multiplied by the mass instead of divided by it
pm_acc_times_mass(self, u) == VScale(self.attr.mass, u)

\* line 130: a = (u / self.mass).reshape((self.sysdim, 1))
pm_acc(self, u) == VDiv(u, self.attr.mass)

\* line 141: v = x[sysdim:2*sysdim] * (1 - friction) + a * dt
pm_vel(self, a) ==
    With(VScale(RSub(R(1), self.attr.friction),
                Block(self, self.attr.sysdim + 1, 2 * self.attr.sysdim)),
         LAMBDA damped :
             With(VScale(self.attr.dt, a), LAMBDA adt : VAdd(damped, adt)))

\* a slip: explicit Euler, the position advanced with the previous velocity
pm_pos_old_velocity(self, v) ==
    With(VScale(self.attr.dt,
                Block(self, self.attr.sysdim + 1, 2 * self.attr.sysdim)),
         LAMBDA vdt : VAdd(Block(self, 1, self.attr.sysdim), vdt))

\* line 150: p = x[:sysdim] + v * dt
pm_pos(self, v) ==
    With(VScale(self.attr.dt, v),
         LAMBDA vdt : VAdd(Block(self, 1, self.attr.sysdim), vdt))

\* lines 153-155: the three blocks are assigned in place
pm_write(self, p, v, a) ==
    With(Store(self.heap, self.attr.x, 1, p), LAMBDA h1 :
    With(Store(h1, self.attr.x, self.attr.sysdim + 1, v), LAMBDA h2 :
         Store(h2, self.attr.x, 2 * self.attr.sysdim + 1, a)))

\* line 158: self.x += sysnoise * randn(x.shape), in place
pm_noise(self, heap, eps) ==
    With(VScale(self.attr.sysnoise, eps),
         LAMBDA n : [heap EXCEPT ![self.attr.x] = VAdd(@, n)])

\* PointmassSys.apply_force; reshape raises when u has not sysdim elements
apply_force(self, u, eps) ==
    IF Len(u) # self.attr.sysdim THEN Raise("ValueError")
    ELSE With(pm_acc(self, u), LAMBDA a :
         With(pm_vel(self, a), LAMBDA v :
         With(pm_pos(self, v), LAMBDA p :
         With(pm_write(self, p, v, a), LAMBDA h :
             [kind |-> "ok",
              self |-> [self EXCEPT !.heap = pm_noise(self, h, eps),
                                    !.attr.cnt = @ + 1]]))))

\* PointmassSys.compute_sensors_proprio: self.x[sysdim*2:]
pm_compute_sensors_proprio(self) ==
    [id |-> self.attr.x, lo |-> 2 * self.attr.sysdim + 1,
     hi |-> Len(self.heap[self.attr.x])]

\* a slip: the position block returned as the exteroceptive channel
pm_compute_sensors_extero_pos(self) ==
    [id |-> self.attr.x, lo |-> 1, hi |-> self.attr.sysdim]

\* PointmassSys.compute_sensors_extero: self.x[sysdim:sysdim*2]
pm_compute_sensors_extero(self) ==
    [id |-> self.attr.x, lo |-> self.attr.sysdim + 1, hi |-> 2 * self.attr.sysdim]

\* PointmassSys.compute_sensors: self.x
pm_compute_sensors(self) == Whole(self.heap, self.attr.x)

\* PointmassSys.step
PointmassSys_step(self, u, eps) ==
    With(apply_force(self, u, eps), LAMBDA r :
        IF r.kind = "raise" THEN r @@ [self |-> self]
        ELSE [kind |-> "ok", self |-> r.self,
              s_proprio |-> pm_compute_sensors_proprio(r.self),
              s_extero |-> pm_compute_sensors_extero(r.self),
              s_all |-> pm_compute_sensors(r.self)])

\* a slip: a reset that leaves the state as it is
PointmassSys_reset_noop(self) == self

\* PointmassSys.reset: self.x = self.x0.copy()
PointmassSys_reset(self) ==
    [self EXCEPT !.attr.x = NewId(self.heap),
                 !.heap = Alloc(self.heap, self.heap[self.attr.x0])]

\* -------------------------------------------------------- forward kinematics
\* 1000 * cos(k) and 1000 * sin(k) for whole radians k, rounded
CosTable == <<540, -416, -990, -654, 284, 960, 754, -146>>
SinTable == <<841, 909, 141, -757, -959, -279, 657, 989>>
np_cos(q) == IF q[1] = 0 THEN R(1) ELSE Q(CosTable[Abs(q[1])], 1000)
np_sin(q) == IF q[1] = 0 THEN R(0)
             ELSE Q((IF q[1] < 0 THEN -1 ELSE 1) * SinTable[Abs(q[1])], 1000)

RECURSIVE VCos(_)
VCos(v) == IF v = <<>> THEN <<>> ELSE <<np_cos(Head(v))>> \o VCos(Tail(v))
RECURSIVE VSin(_)
VSin(v) == IF v = <<>> THEN <<>> ELSE <<np_sin(Head(v))>> \o VSin(Tail(v))

\* joint_positions with unit = 'rad'
joint_positions(angles, lengths) ==
    IF Len(angles) # Len(lengths) THEN Raise("ValueError")
    ELSE With(CumSum(angles), LAMBDA a :
         With(VMul(VCos(a), lengths), LAMBDA dx :
         With(VMul(VSin(a), lengths), LAMBDA dy :
             [kind |-> "ok", xs |-> CumSum(dx), ys |-> CumSum(dy)])))

\* forward: the last joint's position
forward(angles, lengths) ==
    With(joint_positions(angles, lengths), LAMBDA j :
        IF j.kind = "raise" THEN j
        ELSE [kind |-> "ok", pos |-> <<j.xs[Len(j.xs)], j.ys[Len(j.ys)]>>])

\* -------------------------------------------------------------- SimplearmSys
RECURSIVE np_clip(_, _, _)
np_clip(v, lo, hi) ==
    IF v = <<>> THEN <<>>
    ELSE <<RMax(lo, RMin(Head(v), hi))>> \o np_clip(Tail(v), lo, hi)

\* a slip: the command scaled but not clipped
compute_motor_command_unclipped(self, m) == VScale(self.attr.factor, m)

\* SimplearmSys.compute_motor_command (the in-place scaling of the caller's
\* array is by factor = 1.0 and changes no value)
compute_motor_command(self, m) ==
    With(VScale(self.attr.factor, m),
         LAMBDA scaled : np_clip(scaled, self.attr.m_mins, self.attr.m_maxs))

\* SimplearmSys.compute_sensors_proprio: a new array m + sysnoise * randn
arm_compute_sensors_proprio(self, eps) ==
    With(VScale(self.attr.sysnoise, eps),
         LAMBDA n : VAdd(self.heap[self.attr.m], n))

\* SimplearmSys.compute_sensors_extero: a new array, or the exception
arm_compute_sensors_extero(self, eps) ==
    With(forward(self.heap[self.attr.m], self.attr.lengths), LAMBDA f :
        IF f.kind = "raise" THEN f
        ELSE IF self.attr.dim_s_extero # Len(f.pos) THEN Raise("ValueError")
        ELSE With(VScale(self.attr.sysnoise, eps),
                  LAMBDA n : [kind |-> "ok", val |-> VAdd(f.pos, n)]))

\* SimplearmSys.compute_sensors: vstack((proprio, extero)), both computed anew
arm_compute_sensors(self, eps_p, eps_e) ==
    With(arm_compute_sensors_proprio(self, eps_p), LAMBDA p :
    With(arm_compute_sensors_extero(self, eps_e), LAMBDA e :
        IF e.kind = "raise" THEN e
        ELSE [kind |-> "ok", val |-> p \o e.val]))

\* SimplearmSys.reset: self.x = self.x0.copy(), and nothing else
SimplearmSys_reset(self) ==
    [self EXCEPT !.attr.x = NewId(self.heap),
                 !.heap = Alloc(self.heap, self.heap[self.attr.x0])]

\* line 309: self.m = self.compute_motor_command(x)
arm_set_m(self, x) ==
    With(compute_motor_command(self, x), LAMBDA m :
        [self EXCEPT !.attr.m = NewId(self.heap), !.heap = Alloc(self.heap, m)])

\* SimplearmSys.step; eps1, eps2, eps3 are the three randn draws in call order
SimplearmSys_step(self, x, eps1, eps2, eps3) ==
    With(arm_set_m(self, x), LAMBDA s1 :
    With(arm_compute_sensors_extero(s1, eps1), LAMBDA e :
        IF e.kind = "raise" THEN e @@ [self |-> s1]
        ELSE With(arm_compute_sensors(s1, eps2, eps3), LAMBDA a :
             IF a.kind = "raise" THEN a @@ [self |-> s1]
             ELSE With(Alloc(s1.heap, e.val), LAMBDA h1 :
                  With(Alloc(h1, a.val), LAMBDA h2 :
                      [kind |-> "ok", self |-> [s1 EXCEPT !.heap = h2],
                       s_proprio |-> Whole(h2, s1.attr.m),
                       s_extero |-> Whole(h2, NewId(s1.heap)),
                       s_all |-> Whole(h2, NewId(h1))])))))

\* ------------------------------------------------------- the caller's side
\* what a result holds, read through its views now
ResultVals(heap, r) ==
    IF r.kind = "ok"
    THEN [kind |-> "ok", s_proprio |-> Deref(heap, r.s_proprio),
          s_extero |-> Deref(heap, r.s_extero), s_all |-> Deref(heap, r.s_all)]
    ELSE r

ResultIds(r) ==
    IF r.kind = "ok" THEN {r.s_proprio.id, r.s_extero.id, r.s_all.id}
    ELSE IF r.kind = "held" THEN {r.s_proprio.id, r.s_extero.id, r.s_all.id}
    ELSE {}

\* array objects no attribute and no result refers to are collected
Collect(self, results) ==
    [self EXCEPT !.heap =
        [i \in {self.attr.x0, self.attr.x}
                \cup (IF Has(self, "m") THEN {self.attr.m} ELSE {})
                \cup UNION {ResultIds(r) : r \in results} |-> @[i]]]

\* the live state of an instance, by value
LiveState(self) ==
    [x |-> self.heap[self.attr.x], cnt |-> self.attr.cnt,
     m |-> IF Has(self, "m") THEN self.heap[self.attr.m] ELSE <<>>]

Returned(r) ==
    IF r.kind = "ok"
    THEN [kind |-> "ok", s_proprio |-> r.s_proprio, s_extero |-> r.s_extero,
          s_all |-> r.s_all]
    ELSE [kind |-> "raise", exc |-> r.exc]

\* input vectors: the right size, out of range or not, and a wrong size
Patterns(n) == {Fill(n, R(0)), Fill(n, R(1)), <<R(2)>> \o Fill(n - 1, R(-2))}
Inputs(n) == Patterns(n) \cup {Fill(n + 1, R(1))}

\* np.random.randn(n, 1): sample draws
Noisy(n) == SubSeq(<<R(1), R(-2), R(1), R(-2), R(1), R(-2)>>, 1, n)
Randn(n) == {Zeros(n), Noisy(n)}

\* the three successive draws of one SimplearmSys.step, of sizes k, n, k
Randn3(k, n) ==
    {<<Zeros(k), Zeros(n), Zeros(k)>>, <<Noisy(k), Noisy(n), Noisy(k)>>,
     <<Noisy(k), Zeros(n), Zeros(k)>>}

\* configurations that name every field the numerical routines read
PointmassParams ==
    {<<R(0), R(0), R(2)>>, <<Q(1, 2), Q(1, 100), R(1)>>,
     <<R(0), Q(1, 100), R(1)>>, <<Q(1, 2), R(0), R(2)>>}
PointmassConfs(d) ==
    {[k \in (DOMAIN d) \ (IF hasx0 THEN {} ELSE {"x0"}) |->
        CASE k = "sysdim" -> n
          [] k = "statedim" -> 3 * n
          [] k = "x0" -> d.x0 \o SubSeq(d.x0, 1, 3 * (n - 1))
          [] k = "friction" -> par[1]
          [] k = "sysnoise" -> par[2]
          [] k = "mass" -> par[3]
          [] OTHER -> d[k]] :
      n \in {1, 2}, hasx0 \in BOOLEAN, par \in PointmassParams}

SimplearmParams == {<<R(1), R(0)>>, <<R(2), Q(1, 100)>>}
SimplearmConfs(d) ==
    {[k \in DOMAIN d |->
        CASE k = "dim_s_motor" -> n
          [] k = "length_ratio" -> par[1]
          [] k = "sysnoise" -> par[2]
          [] OTHER -> d[k]] :
      n \in {2, 3}, par \in SimplearmParams}

Confs(c, d) == IF c = PM THEN PointmassConfs(d) ELSE SimplearmConfs(d)

NoAcc == [stepped |-> FALSE, fresh |-> FALSE, u |-> <<>>, eps |-> <<>>]
NoRun == [n |-> 0, u |-> <<>>, p0 |-> <<>>, v0 |-> <<>>]

\* ------------------------------------------------------------------ Init
Init ==
    /\ cls \in Classes
    /\ defaults = ClassDefaults(cls, X0Draw)
    /\ conf \in Confs(cls, defaults)
    /\ pc = "ready"
    /\ sys = Construct(cls, conf).self
    /\ ret = None /\ held = None /\ pre = None
    /\ lastop = "init" /\ last_u = <<>>
    /\ acc = NoAcc /\ run = NoRun
    /\ calls = 0
    /\ twin = None /\ ret2 = None /\ phase = "solo"

\* the ghost record of the current run of equal forces
NextRun(self, u) ==
    IF run.n > 0 /\ run.u = u THEN [run EXCEPT !.n = @ + 1]
    ELSE [n |-> 1, u |-> u,
          p0 |-> Block(self, 1, self.attr.sysdim),
          v0 |-> Block(self, self.attr.sysdim + 1, 2 * self.attr.sysdim)]

\* ------------------------------------------------------------- actions
PointmassStep ==
    /\ pc = "ready" /\ phase = "solo" /\ cls = PM /\ calls < MaxCalls
    /\ \E u \in Inputs(sys.attr.sysdim), eps \in Randn(sys.attr.statedim) :
         \E r \in {PointmassSys_step(sys, u, eps)} :
             /\ ret' = Returned(r)
             /\ sys' = Collect(r.self, {ret', held})
             /\ last_u' = u
             /\ acc' = IF r.kind = "ok"
                       THEN [stepped |-> TRUE, fresh |-> TRUE, u |-> u,
                             eps |-> SubSeq(eps, 2 * sys.attr.sysdim + 1, Len(eps))]
                       ELSE acc
             /\ run' = IF r.kind = "ok" THEN NextRun(sys, u) ELSE NoRun
    /\ pre' = LiveState(sys)
    /\ lastop' = "step"
    /\ calls' = calls + 1
    /\ UNCHANGED <<cls, defaults, conf, pc, held, twin, ret2, phase>>

PointmassReset ==
    /\ pc = "ready" /\ phase = "solo" /\ cls = PM /\ calls < MaxCalls
    /\ sys' = Collect(PointmassSys_reset(sys), {held})
    /\ ret' = None
    /\ pre' = LiveState(sys)
    /\ lastop' = "reset"
    /\ acc' = [acc EXCEPT !.fresh = FALSE]
    /\ run' = NoRun
    /\ calls' = calls + 1
    /\ UNCHANGED <<cls, defaults, conf, pc, held, last_u, twin, ret2, phase>>

ArmStep ==
    /\ pc = "ready" /\ phase = "solo" /\ cls = ARM /\ calls < MaxCalls
    /\ \E x \in Inputs(sys.attr.dim_s_motor),
          eps \in Randn3(sys.attr.dim_s_extero, sys.attr.dim_s_motor) :
         \E r \in {SimplearmSys_step(sys, x, eps[1], eps[2], eps[3])} :
             /\ ret' = Returned(r)
             /\ sys' = Collect(r.self, {ret', held})
             /\ last_u' = x
    /\ pre' = LiveState(sys)
    /\ lastop' = "step"
    /\ calls' = calls + 1
    /\ UNCHANGED <<cls, defaults, conf, pc, held, acc, run, twin, ret2, phase>>

ArmReset ==
    /\ pc = "ready" /\ phase = "solo" /\ cls = ARM /\ calls < MaxCalls
    /\ sys' = Collect(SimplearmSys_reset(sys), {held})
    /\ ret' = None
    /\ pre' = LiveState(sys)
    /\ lastop' = "reset"
    /\ calls' = calls + 1
    /\ UNCHANGED <<cls, defaults, conf, pc, held, last_u, acc, run, twin, ret2, phase>>

\* the caller keeps the result it was just given
Keep ==
    /\ pc = "ready" /\ phase = "solo" /\ ret.kind = "ok" /\ held.kind = "none"
    /\ held' = [kind |-> "held", s_proprio |-> ret.s_proprio,
                s_extero |-> ret.s_extero, s_all |-> ret.s_all,
                vals |-> ResultVals(sys.heap, ret)]
    /\ UNCHANGED <<cls, defaults, conf, pc, sys, ret, pre, lastop, last_u, acc, run,
                   calls, twin, ret2, phase>>

Next == PointmassStep \/ PointmassReset \/ ArmStep \/ ArmReset

Spec == Init /\ [][Next]_vars

\* the same calls, with a caller that may keep one of the results
NextHold == PointmassStep \/ PointmassReset \/ ArmStep \/ ArmReset \/ Keep

SpecHold == Init /\ [][NextHold]_vars

\* ---------------------------------------------- construction as an action
\* a value unlike the default for every key of the defaults mapping
Overrides(d) ==
    [k \in DOMAIN d |->
        CASE k = "sysdim" -> 2
          [] k = "statedim" -> 6
          [] k = "x0" -> d.x0 \o d.x0
          [] k = "dim_s_motor" -> 2
          [] k = "dim_s_extero" -> 3
          [] k = "friction" -> R(0)
          [] k = "sysnoise" -> R(0)
          [] OTHER -> RMul(R(2), d[k])]

\* a caller's mapping that overrides any subset of the default keys
CtorConfs(d) == {Restrict(Overrides(d), K) : K \in SUBSET (DOMAIN d)}

InitCtor ==
    /\ cls \in Classes
    /\ \E x0 \in X0Draws : defaults = ClassDefaults(cls, x0)
    /\ conf \in CtorConfs(defaults)
    /\ pc = "new"
    /\ sys = None
    /\ ret = None /\ held = None /\ pre = None
    /\ lastop = "init" /\ last_u = <<>>
    /\ acc = NoAcc /\ run = NoRun
    /\ calls = 0
    /\ twin = None /\ ret2 = None /\ phase = "solo"

DoConstruct ==
    /\ pc = "new"
    /\ \E r \in {Construct(cls, conf)} :
           IF r.kind = "ok"
           THEN pc' = "ready" /\ sys' = r.self /\ ret' = None
           ELSE pc' = "failed" /\ sys' = sys /\ ret' = r
    /\ UNCHANGED <<cls, defaults, conf, held, pre, lastop, last_u, acc, run, calls,
                   twin, ret2, phase>>

NextCtor == DoConstruct

SpecCtor == InitCtor /\ [][NextCtor]_vars

\* ------------------------------------- an instance and a fresh twin of it
\* after any history: reset the instance, construct a second one from conf
Fork ==
    /\ pc = "ready" /\ phase = "solo"
    /\ sys' = Collect(IF cls = PM THEN PointmassSys_reset(sys)
                      ELSE SimplearmSys_reset(sys), {})
    /\ twin' = Construct(cls, conf).self
    /\ phase' = "paired"
    /\ ret' = None /\ ret2' = None
    /\ pre' = None /\ lastop' = "reset" /\ last_u' = <<>>
    /\ acc' = NoAcc /\ run' = NoRun
    /\ calls' = 0
    /\ UNCHANGED <<cls, defaults, conf, pc, held>>

\* the same input and the same noise draws go to both
PairedPointmassStep ==
    /\ phase = "paired" /\ cls = PM /\ calls < MaxPaired
    /\ \E u \in Inputs(sys.attr.sysdim), eps \in Randn(sys.attr.statedim) :
         \E r1 \in {PointmassSys_step(sys, u, eps)},
            r2 \in {PointmassSys_step(twin, u, eps)} :
             /\ ret' = Returned(r1)
             /\ sys' = Collect(r1.self, {ret'})
             /\ ret2' = Returned(r2)
             /\ twin' = Collect(r2.self, {ret2'})
             /\ last_u' = u
    /\ lastop' = "step"
    /\ calls' = calls + 1
    /\ UNCHANGED <<cls, defaults, conf, pc, held, pre, acc, run, phase>>

PairedArmStep ==
    /\ phase = "paired" /\ cls = ARM /\ calls < MaxPaired
    /\ \E x \in Inputs(sys.attr.dim_s_motor),
          eps \in Randn3(sys.attr.dim_s_extero, sys.attr.dim_s_motor) :
         \E r1 \in {SimplearmSys_step(sys, x, eps[1], eps[2], eps[3])},
            r2 \in {SimplearmSys_step(twin, x, eps[1], eps[2], eps[3])} :
             /\ ret' = Returned(r1)
             /\ sys' = Collect(r1.self, {ret'})
             /\ ret2' = Returned(r2)
             /\ twin' = Collect(r2.self, {ret2'})
             /\ last_u' = x
    /\ lastop' = "step"
    /\ calls' = calls + 1
    /\ UNCHANGED <<cls, defaults, conf, pc, held, pre, acc, run, phase>>

NextTwin ==
    \/ PointmassStep \/ PointmassReset \/ ArmStep \/ ArmReset
    \/ Fork \/ PairedPointmassStep \/ PairedArmStep

SpecTwin == Init /\ [][NextTwin]_vars

\* ================================================================= claims
AccelBlock(self) ==
    SubSeq(self.heap[self.attr.x], 2 * self.attr.sysdim + 1, 3 * self.attr.sysdim)
VelBlock(self) ==
    SubSeq(self.heap[self.attr.x], self.attr.sysdim + 1, 2 * self.attr.sysdim)
PosBlock(self) == SubSeq(self.heap[self.attr.x], 1, self.attr.sysdim)
InRange(v, lo, hi) == \A i \in 1..Len(v) : RLe(lo, v[i]) /\ RLe(v[i], hi)

\* C1: construction with a configuration overriding any subset of the default
\* keys succeeds, and every default key is then a readable field holding the
\* caller's value if overridden and the default otherwise.
C1_DefaultsReadable ==
    pc # "new" =>
        /\ pc = "ready"
        /\ \A k \in DOMAIN defaults :
              /\ Has(sys, k)
              /\ (IF k = "x0" THEN sys.heap[sys.attr.x0] ELSE sys.attr[k])
                 = (IF k \in DOMAIN conf THEN conf[k] ELSE defaults[k])

\* C2: the values of a result the caller kept stay what they were when the
\* Step that produced it returned, whatever Step or Reset calls follow.
C2_HeldResultIsACopy ==
    held.kind = "held" =>
        ResultVals(sys.heap, [held EXCEPT !.kind = "ok"]) = held.vals

\* C3: a Step call that raises leaves the live state (x, cnt, m) as it was.
C3_FailedStepChangesNothing ==
    (pc = "ready" /\ lastop = "step" /\ ret.kind = "raise") => LiveState(sys) = pre

\* C4: after any history and a Reset, Step results equal those of a freshly
\* constructed instance given the same inputs and the same noise draws.
C4_ResetReproducesFresh ==
    phase = "paired" => ResultVals(sys.heap, ret) = ResultVals(twin.heap, ret2)

C4_Witness ==
    /\ phase = "paired" /\ cls = PM /\ calls >= 2 /\ ret.kind = "ok"
    /\ sys.attr.cnt > calls
    /\ sys.attr.sysnoise # R(0) /\ Deref(sys.heap, ret.s_extero) # Zeros(sys.attr.sysdim)

\* C5: once the arm has been stepped, every element of m, and of the returned
\* proprioceptive channel, lies within [m_mins, m_maxs].
C5_MotorCommandInRange ==
    (pc = "ready" /\ cls = ARM /\ last_u # <<>>) =>
        /\ InRange(sys.heap[sys.attr.m], sys.attr.m_mins, sys.attr.m_maxs)
        /\ ret.kind = "ok" =>
              InRange(Deref(sys.heap, ret.s_proprio), sys.attr.m_mins, sys.attr.m_maxs)

C5_Witness ==
    /\ pc = "ready" /\ cls = ARM /\ lastop = "step" /\ ret.kind = "ok" /\ calls >= 2
    /\ ~InRange(last_u, sys.attr.m_mins, sys.attr.m_maxs)

\* C6: Reset of the arm restores m to the zero vector of length dim_s_motor.
C6_ArmResetZeroesM ==
    (pc = "ready" /\ cls = ARM /\ lastop = "reset") =>
        sys.heap[sys.attr.m] = Zeros(sys.attr.dim_s_motor)

\* C7: in every arm Step result, 'all' is the concatenation of that result's
\* 'proprioceptive' channel followed by that result's 'exteroceptive' channel.
C7_ArmAllIsConcatenation ==
    (pc = "ready" /\ cls = ARM /\ ret.kind = "ok") =>
        Deref(sys.heap, ret.s_all)
            = Deref(sys.heap, ret.s_proprio) \o Deref(sys.heap, ret.s_extero)

\* C8: after a point-mass Step, 'all' equals the state vector x, and
\* 'proprioceptive' / 'exteroceptive' its acceleration / velocity blocks.
C8_ChannelsAreTheState ==
    (pc = "ready" /\ cls = PM /\ lastop = "step" /\ ret.kind = "ok") =>
        /\ Deref(sys.heap, ret.s_all) = sys.heap[sys.attr.x]
        /\ Deref(sys.heap, ret.s_proprio) = AccelBlock(sys)
        /\ Deref(sys.heap, ret.s_extero) = VelBlock(sys)

C8_Witness ==
    /\ pc = "ready" /\ cls = PM /\ lastop = "step" /\ ret.kind = "ok" /\ calls >= 3
    /\ sys.attr.sysdim = 2 /\ sys.attr.sysnoise # R(0)
    /\ pre.x # sys.heap[sys.attr.x0]
    /\ VelBlock(sys) # PosBlock(sys) /\ VelBlock(sys) # AccelBlock(sys)

\* C9, as stated: once an integration step has run, the acceleration block
\* equals the a = u / mass that the most recent integration step computed.
C9_AccelIsLastA ==
    (pc = "ready" /\ cls = PM /\ acc.stepped) =>
        AccelBlock(sys) = VDiv(acc.u, sys.attr.mass)

\* C9, amended: after a Step the acceleration block is a = u / mass plus the
\* noise that step added to it; after construction or Reset it is x0's block.
C9_AccelIsLastAPlusNoise ==
    (pc = "ready" /\ cls = PM) =>
        AccelBlock(sys) =
            IF acc.fresh
            THEN VAdd(VDiv(acc.u, sys.attr.mass), VScale(sys.attr.sysnoise, acc.eps))
            ELSE SubSeq(sys.heap[sys.attr.x0], 2 * sys.attr.sysdim + 1,
                        3 * sys.attr.sysdim)

C9_Witness ==
    /\ pc = "ready" /\ cls = PM /\ acc.fresh /\ calls >= 3
    /\ sys.attr.sysnoise # R(0) /\ acc.eps # Zeros(sys.attr.sysdim)
    /\ acc.u # Zeros(sys.attr.sysdim)
    /\ lastop = "step" /\ ret.kind = "ok"

\* the closed form of n semi-implicit steps under constant acceleration a
\* from position p0 and velocity v0
ClosedV(v0, a, dt, n) == VAdd(v0, VScale(RMul(R(n), dt), a))
ClosedP(p0, v0, a, dt, n) ==
    VAdd(VAdd(p0, VScale(RMul(R(n), dt), v0)),
         VScale(RMul(Q(n * (n + 1), 2), RMul(dt, dt)), a))

\* C10, as stated: without noise and friction, n steps under one force u leave
\* velocity n * (u / mass) * dt and position the closed-form sum.
C10_ClosedFormFromRest ==
    (pc = "ready" /\ cls = PM /\ run.n > 0
        /\ sys.attr.sysnoise = R(0) /\ sys.attr.friction = R(0)) =>
        /\ VelBlock(sys) = ClosedV(Zeros(sys.attr.sysdim),
                                   VDiv(run.u, sys.attr.mass), sys.attr.dt, run.n)
        /\ PosBlock(sys) = ClosedP(Zeros(sys.attr.sysdim), Zeros(sys.attr.sysdim),
                                   VDiv(run.u, sys.attr.mass), sys.attr.dt, run.n)

\* C10, amended: the same, counted from the position p0 and velocity v0 the
\* run of n steps started from.
C10_ClosedFormFromStart ==
    (pc = "ready" /\ cls = PM /\ run.n > 0
        /\ sys.attr.sysnoise = R(0) /\ sys.attr.friction = R(0)) =>
        /\ VelBlock(sys) = ClosedV(run.v0, VDiv(run.u, sys.attr.mass),
                                   sys.attr.dt, run.n)
        /\ PosBlock(sys) = ClosedP(run.p0, run.v0, VDiv(run.u, sys.attr.mass),
                                   sys.attr.dt, run.n)

C10_Witness ==
    /\ pc = "ready" /\ cls = PM /\ run.n >= 3
    /\ sys.attr.sysnoise = R(0) /\ sys.attr.friction = R(0)
    /\ run.u # Zeros(sys.attr.sysdim) /\ run.v0 # Zeros(sys.attr.sysdim)

====
